---- MODULE Spec2Model ----
(***************************************************************************)
(* Resume positions of the replication handler                             *)
(* (replication_handler/util/position.py): GtidPosition, LogPosition,      *)
(* HeartbeatPosition and the factory construct_position.                   *)
(*                                                                         *)
(* Python values are tagged records, strings are sequences of one          *)
(* character strings, dicts are functions from key names to values, and    *)
(* the outcome of a call is a record holding the exception raised (or     *)
(* "none") and the value returned.                                         *)
(***************************************************************************)
EXTENDS Integers, Sequences, FiniteSets, TLC

VARIABLES p, q, cycles, position_dict, resume, exc, last, other, eq

vars == <<p, q, cycles, position_dict, resume, exc, last, other, eq>>

(***************************************************************************)
(* Bounds of the inputs.                                                   *)
(***************************************************************************)
MaxLen == 3
MaxInt == 2
MaxCycles == 2

Alphabet == {"a", ":", "0", "9", "-"}

(***************************************************************************)
(* Python values.                                                          *)
(***************************************************************************)
None == [t |-> "none"]

PyInt(n) == [t |-> "int", v |-> n]

PyStr(s) == [t |-> "str", v |-> s]

\* bool(x): None, 0 and "" are falsy
Truthy(x) ==
    CASE x.t = "none" -> FALSE
      [] x.t = "int" -> x.v /= 0
      [] x.t = "str" -> x.v /= <<>>

EmptyDict == [k \in {} |-> None]

Item(k, v) == [x \in {k} |-> v]

\* position_dict[k] = v executed on the dict d
SetItem(d, k, v) == [x \in (DOMAIN d) \cup {k} |-> IF x = k THEN v ELSE d[x]]

\* d.get(k, None)
Get(d, k) == IF k \in DOMAIN d THEN d[k] ELSE None

Return(v) == [exc |-> "none", val |-> v]

Raise(e) == [exc |-> e, val |-> None]

(***************************************************************************)
(* str.split(":"), int(str) and "{}".format(int).                          *)
(***************************************************************************)
Digits == <<"0", "1", "2", "3", "4", "5", "6", "7", "8", "9">>

DigitChars == {Digits[i] : i \in 1..10}

DigitVal(c) == (CHOOSE i \in 1..10 : Digits[i] = c) - 1

Tail2(s, i) == SubSeq(s, i, Len(s))

RECURSIVE split(_)
split(s) ==
    IF \E i \in 1..Len(s) : s[i] = ":"
    THEN LET i == CHOOSE j \in 1..Len(s) :
                      s[j] = ":" /\ \A k \in 1..(j - 1) : s[k] /= ":"
         IN  <<SubSeq(s, 1, i - 1)>> \o split(Tail2(s, i + 1))
    ELSE <<s>>

RECURSIVE strip(_)
strip(s) ==
    IF s /= <<>> /\ s[1] = " " THEN strip(Tail(s))
    ELSE IF s /= <<>> /\ s[Len(s)] = " " THEN strip(SubSeq(s, 1, Len(s) - 1))
    ELSE s

Unsigned(s) == IF s /= <<>> /\ s[1] \in {"-", "+"} THEN Tail(s) ELSE s

\* int(s) returns rather than raising ValueError
IsIntLiteral(s) ==
    LET d == Unsigned(strip(s))
    IN  d /= <<>> /\ \A i \in 1..Len(d) : d[i] \in DigitChars

RECURSIVE Magnitude(_)
Magnitude(d) ==
    IF d = <<>> THEN 0
    ELSE 10 * Magnitude(SubSeq(d, 1, Len(d) - 1)) + DigitVal(d[Len(d)])

int(s) ==
    LET t == strip(s)
    IN  IF t[1] = "-" THEN 0 - Magnitude(Unsigned(t)) ELSE Magnitude(Unsigned(t))

RECURSIVE format(_)
format(n) ==
    IF n < 0 THEN <<"-">> \o format(0 - n)
    ELSE IF n < 10 THEN <<Digits[n + 1]>>
    ELSE format(n \div 10) \o <<Digits[(n % 10) + 1]>>

(***************************************************************************)
(* The position classes.                                                   *)
(***************************************************************************)
NoPosition == [cls |-> "none"]

GtidPosition(gtid, offset) ==
    [cls |-> "GtidPosition", gtid |-> gtid, offset |-> offset]

\* faulty variant: tests "offset is not None" in place of the truth value
GtidPosition_to_dict_offset_not_none(self) ==
    LET d0 == EmptyDict
        d1 == IF Truthy(self.gtid) THEN SetItem(d0, "gtid", self.gtid) ELSE d0
        d2 == IF self.offset /= None THEN SetItem(d1, "offset", self.offset) ELSE d1
    IN  d2

GtidPosition_to_dict(self) ==
    LET d0 == EmptyDict
        d1 == IF Truthy(self.gtid) THEN SetItem(d0, "gtid", self.gtid) ELSE d0
        d2 == IF Truthy(self.offset) THEN SetItem(d1, "offset", self.offset) ELSE d1
    IN  d2

\* faulty variant: the current interval is formatted with the next id
format_gtid_set_plus_one(gtid) ==
    LET parts == split(gtid)
    IN  IF Len(parts) /= 2 THEN Raise("ValueError")
        ELSE IF ~IsIntLiteral(parts[2]) THEN Raise("ValueError")
        ELSE Return(PyStr(parts[1] \o <<":", "1", "-">> \o format(int(parts[2]) + 1)))

\* sid, transaction_id = gtid.split(":") raises ValueError unless the split
\* yields two parts; int(transaction_id) raises ValueError on a non-integer
format_gtid_set(gtid) ==
    LET parts == split(gtid)
    IN  IF Len(parts) /= 2 THEN Raise("ValueError")
        ELSE IF ~IsIntLiteral(parts[2]) THEN Raise("ValueError")
        ELSE Return(PyStr(parts[1] \o <<":", "1", "-">> \o format(int(parts[2]))))

\* faulty variant: the next interval is formatted without adding one
format_next_gtid_set_same(gtid) ==
    LET parts == split(gtid)
    IN  IF Len(parts) /= 2 THEN Raise("ValueError")
        ELSE IF ~IsIntLiteral(parts[2]) THEN Raise("ValueError")
        ELSE Return(PyStr(parts[1] \o <<":", "1", "-">> \o format(int(parts[2]))))

\* faulty variant: takes the first and the last part of the split instead of
\* unpacking exactly two
format_next_gtid_set_unchecked(gtid) ==
    LET parts == split(gtid)
    IN  IF ~IsIntLiteral(parts[Len(parts)]) THEN Raise("ValueError")
        ELSE Return(PyStr(parts[1] \o <<":", "1", "-">>
                          \o format(int(parts[Len(parts)]) + 1)))

format_next_gtid_set(gtid) ==
    LET parts == split(gtid)
    IN  IF Len(parts) /= 2 THEN Raise("ValueError")
        ELSE IF ~IsIntLiteral(parts[2]) THEN Raise("ValueError")
        ELSE Return(PyStr(parts[1] \o <<":", "1", "-">> \o format(int(parts[2]) + 1)))

GtidPosition_to_replication_dict(self) ==
    IF Truthy(self.gtid) /\ Truthy(self.offset)
    THEN LET r == format_gtid_set(self.gtid.v)
         IN  IF r.exc /= "none" THEN r
             ELSE Return(SetItem(EmptyDict, "auto_position", r.val))
    ELSE IF Truthy(self.gtid)
    THEN LET r == format_next_gtid_set(self.gtid.v)
         IN  IF r.exc /= "none" THEN r
             ELSE Return(SetItem(EmptyDict, "auto_position", r.val))
    ELSE Return(EmptyDict)

LogPosition(log_pos, log_file, offset) ==
    [cls |-> "LogPosition", log_pos |-> log_pos, log_file |-> log_file,
     offset |-> offset]

LogPosition_to_dict(self) ==
    LET d0 == EmptyDict
        d1 == IF Truthy(self.log_pos) /\ Truthy(self.log_file)
              THEN SetItem(SetItem(d0, "log_pos", self.log_pos),
                           "log_file", self.log_file)
              ELSE d0
        d2 == IF Truthy(self.offset) THEN SetItem(d1, "offset", self.offset) ELSE d1
    IN  d2

\* faulty variant: the resume mapping carries the offset as the persisted one
LogPosition_to_replication_dict_with_offset(self) ==
    Return(LogPosition_to_dict(self))

LogPosition_to_replication_dict(self) ==
    IF Truthy(self.log_pos) /\ Truthy(self.log_file)
    THEN Return(SetItem(SetItem(EmptyDict, "log_pos", self.log_pos),
                        "log_file", self.log_file))
    ELSE Return(EmptyDict)

HeartbeatPosition(hb_serial, hb_timestamp, log_pos, log_file, offset) ==
    [cls |-> "HeartbeatPosition", log_pos |-> log_pos, log_file |-> log_file,
     offset |-> offset, hb_serial |-> hb_serial, hb_timestamp |-> hb_timestamp]

\* faulty variant: equality over the offset too
HeartbeatPosition_eq_with_offset(self, o) ==
    /\ self.hb_serial = o.hb_serial
    /\ self.hb_timestamp = o.hb_timestamp
    /\ self.log_file = o.log_file
    /\ self.log_pos = o.log_pos
    /\ self.offset = o.offset

HeartbeatPosition_eq(self, o) ==
    /\ self.hb_serial = o.hb_serial
    /\ self.hb_timestamp = o.hb_timestamp
    /\ self.log_file = o.log_file
    /\ self.log_pos = o.log_pos

\* method resolution: HeartbeatPosition inherits both conversions of LogPosition
to_dict(self) ==
    IF self.cls = "GtidPosition" THEN GtidPosition_to_dict(self)
    ELSE LogPosition_to_dict(self)

to_replication_dict(self) ==
    IF self.cls = "GtidPosition" THEN GtidPosition_to_replication_dict(self)
    ELSE LogPosition_to_replication_dict(self)

\* faulty variant: the file position is tried before the gtid
construct_position_log_first(d) ==
    IF "log_pos" \in DOMAIN d /\ "log_file" \in DOMAIN d
    THEN Return(LogPosition(Get(d, "log_pos"), Get(d, "log_file"), Get(d, "offset")))
    ELSE IF "gtid" \in DOMAIN d
    THEN Return(GtidPosition(Get(d, "gtid"), Get(d, "offset")))
    ELSE Raise("InvalidPositionDictException")

\* faulty variant: the LogPosition is rebuilt without its offset
construct_position_log_without_offset(d) ==
    IF "gtid" \in DOMAIN d
    THEN Return(GtidPosition(Get(d, "gtid"), Get(d, "offset")))
    ELSE IF "log_pos" \in DOMAIN d /\ "log_file" \in DOMAIN d
    THEN Return(LogPosition(Get(d, "log_pos"), Get(d, "log_file"), None))
    ELSE Raise("InvalidPositionDictException")

\* faulty variant: the GtidPosition is rebuilt without its offset
construct_position_gtid_without_offset(d) ==
    IF "gtid" \in DOMAIN d
    THEN Return(GtidPosition(Get(d, "gtid"), None))
    ELSE IF "log_pos" \in DOMAIN d /\ "log_file" \in DOMAIN d
    THEN Return(LogPosition(Get(d, "log_pos"), Get(d, "log_file"), Get(d, "offset")))
    ELSE Raise("InvalidPositionDictException")

construct_position(d) ==
    IF "gtid" \in DOMAIN d
    THEN Return(GtidPosition(Get(d, "gtid"), Get(d, "offset")))
    ELSE IF "log_pos" \in DOMAIN d /\ "log_file" \in DOMAIN d
    THEN Return(LogPosition(Get(d, "log_pos"), Get(d, "log_file"), Get(d, "offset")))
    ELSE Raise("InvalidPositionDictException")

(***************************************************************************)
(* Inputs.                                                                 *)
(***************************************************************************)
Strings == UNION {[1..n -> Alphabet] : n \in 0..MaxLen}

GtidValues == {None} \cup {PyStr(s) : s \in Strings}

IntValues == {None} \cup {PyInt(n) : n \in 0..MaxInt}

FileValues == {None, PyStr(<<>>), PyStr(<<"a">>), PyStr(<<"a", "0">>)}

HbSerials == {PyInt(1), PyInt(2)}

HbTimestamps == {PyInt(1), PyInt(2)}

HbLogPos == {PyInt(n) : n \in 1..MaxInt}

HbFiles == {PyStr(<<"a">>), PyStr(<<"a", "0">>)}

HbOffsets == {PyInt(0), PyInt(1)}

Heartbeats ==
    {HeartbeatPosition(s, t, lp, lf, o) :
        s \in HbSerials, t \in HbTimestamps, lp \in HbLogPos, lf \in HbFiles,
        o \in HbOffsets}

Keys == {"gtid", "log_pos", "log_file", "offset"}

\* a key that the mapping does not hold
Absent == [t |-> "absent"]

ValuesOf(k) ==
    CASE k = "gtid" -> GtidValues
      [] k = "log_pos" -> IntValues
      [] k = "log_file" -> FileValues
      [] k = "offset" -> IntValues

MakeDict(c) == [k \in {x \in Keys : c[x] /= Absent} |-> c[k]]

PositionDicts ==
    {MakeDict([gtid |-> g, log_pos |-> lp, log_file |-> lf, offset |-> o]) :
        g \in ValuesOf("gtid") \cup {Absent},
        lp \in ValuesOf("log_pos") \cup {Absent},
        lf \in ValuesOf("log_file") \cup {Absent},
        o \in ValuesOf("offset") \cup {Absent}}

(***************************************************************************)
(* State: p is the position last built by a caller, q the position the     *)
(* client currently holds (p itself, or p after restarts), position_dict   *)
(* the last persisted mapping, resume the last resume mapping, exc the     *)
(* exception of the last call, last the last call.                         *)
(***************************************************************************)
Init ==
    /\ p = NoPosition
    /\ q = NoPosition
    /\ cycles = 0
    /\ position_dict = None
    /\ resume = None
    /\ exc = "none"
    /\ last = "none"
    /\ other = NoPosition
    /\ eq = FALSE

\* a behaviour follows one position value: positions are built once and
\* never mutated
Built(pos) ==
    /\ p' = pos
    /\ q' = pos
    /\ cycles' = 0
    /\ position_dict' = None
    /\ resume' = None
    /\ exc' = "none"
    /\ last' = "init"
    /\ other' = NoPosition
    /\ eq' = FALSE

NewGtidPosition ==
    /\ last = "none"
    /\ \E gtid \in GtidValues, offset \in IntValues :
        Built(GtidPosition(gtid, offset))

NewLogPosition ==
    /\ last = "none"
    /\ \E log_pos \in IntValues, log_file \in FileValues, offset \in IntValues :
        Built(LogPosition(log_pos, log_file, offset))

NewHeartbeatPosition ==
    /\ last = "none"
    /\ \E hb \in Heartbeats : Built(hb)

\* construct_position(d) called on an arbitrary mapping
ConstructPosition ==
    /\ last = "none"
    /\ \E d \in PositionDicts :
        LET r == construct_position(d)
        IN  /\ p' = IF r.exc = "none" THEN r.val ELSE NoPosition
            /\ q' = p'
            /\ cycles' = 0
            /\ position_dict' = d
            /\ resume' = None
            /\ exc' = r.exc
            /\ last' = "construct_position"
            /\ other' = NoPosition
            /\ eq' = FALSE

ToDict ==
    /\ q /= NoPosition
    /\ position_dict' = to_dict(q)
    /\ exc' = "none"
    /\ last' = "to_dict"
    /\ UNCHANGED <<p, q, cycles, resume, other, eq>>

ToReplicationDict ==
    /\ q /= NoPosition
    /\ LET r == to_replication_dict(q)
       IN  /\ resume' = r.val
           /\ exc' = r.exc
    /\ last' = "to_replication_dict"
    /\ UNCHANGED <<p, q, cycles, position_dict, other, eq>>

\* persist-then-reconstruct: q := construct_position(q.to_dict())
Restart ==
    /\ q /= NoPosition
    /\ cycles < MaxCycles
    /\ LET d == to_dict(q)
           r == construct_position(d)
       IN  /\ position_dict' = d
           /\ q' = IF r.exc = "none" THEN r.val ELSE q
           /\ cycles' = IF r.exc = "none" THEN cycles + 1 ELSE cycles
           /\ exc' = r.exc
    /\ last' = "restart"
    /\ UNCHANGED <<p, resume, other, eq>>

HeartbeatEq ==
    /\ q.cls = "HeartbeatPosition"
    /\ \E o \in Heartbeats :
        /\ other' = o
        /\ eq' = HeartbeatPosition_eq(q, o)
    /\ exc' = "none"
    /\ last' = "eq"
    /\ UNCHANGED <<p, q, cycles, position_dict, resume>>

Next ==
    \/ NewGtidPosition
    \/ NewLogPosition
    \/ NewHeartbeatPosition
    \/ ConstructPosition
    \/ ToDict
    \/ ToReplicationDict
    \/ Restart
    \/ HeartbeatEq

Spec == Init /\ [][Next]_vars

(***************************************************************************)
(* Vocabulary of the properties: a GTID "S:N" and an interval "S:1-M",     *)
(* read character by character.                                            *)
(***************************************************************************)
Colons(s) == {i \in 1..Len(s) : s[i] = ":"}

RECURSIVE Pow10(_)
Pow10(k) == IF k = 0 THEN 1 ELSE 10 * Pow10(k - 1)

RECURSIVE SumTo(_, _)
SumTo(d, i) ==
    IF i = 0 THEN 0
    ELSE SumTo(d, i - 1) + DigitVal(d[i]) * Pow10(Len(d) - i)

AllDigits(d) == d /= <<>> /\ \A i \in 1..Len(d) : d[i] \in DigitChars

\* a decimal integer: digits, with an optional minus sign
IsDecimalInteger(d) ==
    AllDigits(d) \/ (d /= <<>> /\ d[1] = "-" /\ AllDigits(Tail(d)))

DecimalValue(d) == IF d[1] = "-" THEN 0 - SumTo(Tail(d), Len(d) - 1) ELSE SumTo(d, Len(d))

\* the one way to write the integer: no leading zero, no "-0"
IsCanonical(d) ==
    /\ IsDecimalInteger(d)
    /\ LET u == IF d[1] = "-" THEN Tail(d) ELSE d
       IN  (u[1] = "0") => (d = <<"0">>)

SidEnd(g) == CHOOSE i \in Colons(g) : TRUE

ValidGtid(g) ==
    /\ Cardinality(Colons(g)) = 1
    /\ IsDecimalInteger(Tail2(g, SidEnd(g) + 1))

Sid(g) == SubSeq(g, 1, SidEnd(g) - 1)

Txn(g) == DecimalValue(Tail2(g, SidEnd(g) + 1))

\* r is the text "<sid>:1-<n>"
IsInterval(r, sid, n) ==
    /\ Len(r) > Len(sid) + 3
    /\ SubSeq(r, 1, Len(sid)) = sid
    /\ SubSeq(r, Len(sid) + 1, Len(sid) + 3) = <<":", "1", "-">>
    /\ IsCanonical(Tail2(r, Len(sid) + 4))
    /\ DecimalValue(Tail2(r, Len(sid) + 4)) = n

\* m is exactly {"auto_position": "<sid>:1-<n>"}
IsAutoPosition(m, sid, n) ==
    /\ DOMAIN m = {"auto_position"}
    /\ m["auto_position"].t = "str"
    /\ IsInterval(m["auto_position"].v, sid, n)

HoldsValidGtid(pos) ==
    /\ pos.cls = "GtidPosition"
    /\ pos.gtid.t = "str"
    /\ ValidGtid(pos.gtid.v)

IsLog(pos) == pos.cls \in {"LogPosition", "HeartbeatPosition"}

\* C1: a GtidPosition with a valid gtid "S:N" and offset None resumes at
\* exactly {"auto_position": "S:1-<N+1>"}
C1_NextInterval ==
    (last = "to_replication_dict" /\ HoldsValidGtid(q) /\ q.offset = None)
        => /\ exc = "none"
           /\ IsAutoPosition(resume, Sid(q.gtid.v), Txn(q.gtid.v) + 1)

C1_Witness ==
    /\ last = "to_replication_dict"
    /\ q = GtidPosition(PyStr(<<"a", ":", "9">>), None)
    /\ resume = Item("auto_position", PyStr(<<"a", ":", "1", "-", "1", "0">>))

\* C2: a GtidPosition with a valid gtid "S:N" and a positive offset resumes
\* at exactly {"auto_position": "S:1-<N>"}; the offset is not in the mapping
C2_CurrentInterval ==
    (/\ last = "to_replication_dict"
     /\ HoldsValidGtid(q)
     /\ q.offset.t = "int"
     /\ q.offset.v > 0)
        => /\ exc = "none"
           /\ IsAutoPosition(resume, Sid(q.gtid.v), Txn(q.gtid.v))

C2_Witness ==
    /\ last = "to_replication_dict"
    /\ q = GtidPosition(PyStr(<<"a", ":", "9">>), PyInt(2))
    /\ resume = Item("auto_position", PyStr(<<"a", ":", "1", "-", "9">>))

\* a position whose persisted mapping the factory accepts
Reconstructible(pos) ==
    \/ /\ pos.cls = "GtidPosition"
       /\ pos.gtid.t = "str"
       /\ pos.gtid.v /= <<>>
    \/ /\ pos.cls = "LogPosition"
       /\ pos.log_pos.t = "int"
       /\ pos.log_pos.v /= 0
       /\ pos.log_file.t = "str"
       /\ pos.log_file.v /= <<>>

\* C3 as claimed: for every GtidPosition and LogPosition p, over all
\* combinations of present and absent fields, construct_position(p.to_dict())
\* succeeds and yields a position with the same persisted mapping
C3_RoundTripEveryPosition ==
    (last = "restart" /\ p.cls \in {"GtidPosition", "LogPosition"})
        => /\ exc = "none"
           /\ to_dict(q) = to_dict(p)

\* C3 amended: for every GtidPosition with a non-empty gtid and every
\* LogPosition with a non-zero log_pos and a non-empty log_file, whatever
\* the offset, construct_position(p.to_dict()) succeeds and yields a position
\* with the same persisted mapping
C3_RoundTrip ==
    (last = "restart" /\ Reconstructible(p))
        => /\ exc = "none"
           /\ cycles > 0
           /\ position_dict = to_dict(p)
           /\ to_dict(q) = to_dict(p)

C3_Witness ==
    /\ last = "restart"
    /\ cycles = 1
    /\ p = LogPosition(PyInt(2), PyStr(<<"a">>), PyInt(1))
    /\ q = p
    /\ position_dict = [log_pos |-> PyInt(2), log_file |-> PyStr(<<"a">>),
                        offset |-> PyInt(1)]

\* C4: construct_position decides by the keys present, gtid first, then
\* log_pos with log_file, else InvalidPositionDictException and no position
C4_FactoryByKeys ==
    (last = "construct_position")
        => IF "gtid" \in DOMAIN position_dict
           THEN /\ exc = "none"
                /\ q.cls = "GtidPosition"
                /\ q.gtid = position_dict["gtid"]
                /\ q.offset = IF "offset" \in DOMAIN position_dict
                              THEN position_dict["offset"] ELSE None
           ELSE IF {"log_pos", "log_file"} \subseteq DOMAIN position_dict
           THEN /\ exc = "none"
                /\ q.cls = "LogPosition"
                /\ q.log_pos = position_dict["log_pos"]
                /\ q.log_file = position_dict["log_file"]
                /\ q.offset = IF "offset" \in DOMAIN position_dict
                              THEN position_dict["offset"] ELSE None
           ELSE /\ exc = "InvalidPositionDictException"
                /\ q = NoPosition

C4_Witness ==
    /\ last = "construct_position"
    /\ DOMAIN position_dict = {"gtid", "log_pos", "log_file"}
    /\ q = GtidPosition(PyStr(<<"a", ":", "9">>), None)

\* C5: the resume mapping of a LogPosition never holds the key offset; it is
\* {log_pos, log_file} with the instance's values when both are truthy and
\* the empty mapping otherwise
C5_LogResume ==
    (last = "to_replication_dict" /\ IsLog(q))
        => /\ exc = "none"
           /\ "offset" \notin DOMAIN resume
           /\ IF /\ q.log_pos \notin {None, PyInt(0)}
                 /\ q.log_file \notin {None, PyStr(<<>>)}
              THEN resume = [log_pos |-> q.log_pos, log_file |-> q.log_file]
              ELSE resume = EmptyDict

C5_Witness ==
    /\ last = "to_replication_dict"
    /\ q = LogPosition(PyInt(2), PyStr(<<"a">>), PyInt(1))
    /\ resume = [log_pos |-> PyInt(2), log_file |-> PyStr(<<"a">>)]

\* C6: a GtidPosition with a valid gtid "S:N" and offset 0 persists as
\* {"gtid": "S:N"} and resumes at {"auto_position": "S:1-<N+1>"}
C6_ZeroOffset ==
    (HoldsValidGtid(q) /\ q.offset = PyInt(0))
        => /\ (last = "to_dict") => (position_dict = [gtid |-> q.gtid])
           /\ (last = "to_replication_dict")
                => /\ exc = "none"
                   /\ IsAutoPosition(resume, Sid(q.gtid.v), Txn(q.gtid.v) + 1)

C6_Witness ==
    /\ last = "to_replication_dict"
    /\ q = GtidPosition(PyStr(<<"a", ":", "9">>), PyInt(0))
    /\ cycles = 0
    /\ position_dict = [gtid |-> PyStr(<<"a", ":", "9">>)]
    /\ resume = Item("auto_position", PyStr(<<"a", ":", "1", "-", "1", "0">>))

\* C7: a non-empty gtid that is not one source id, one ":" and an integer
\* makes to_replication_dict fail, with or without an offset, and no
\* auto_position is returned
C7_MalformedGtidFails ==
    (/\ last = "to_replication_dict"
     /\ q.cls = "GtidPosition"
     /\ q.gtid.t = "str"
     /\ q.gtid.v /= <<>>
     /\ ~ValidGtid(q.gtid.v))
        => /\ exc /= "none"
           /\ resume = None

C7_Witness ==
    /\ last = "to_replication_dict"
    /\ q = GtidPosition(PyStr(<<":", ":", "9">>), None)
    /\ exc = "ValueError"

\* C8: two HeartbeatPositions compare equal exactly when hb_serial,
\* hb_timestamp, log_file and log_pos all agree; offset plays no part
C8_HeartbeatEquality ==
    (last = "eq")
        => (eq <=> /\ q.hb_serial = other.hb_serial
                   /\ q.hb_timestamp = other.hb_timestamp
                   /\ q.log_file = other.log_file
                   /\ q.log_pos = other.log_pos)

C8_Witness ==
    /\ last = "eq"
    /\ eq
    /\ q.offset /= other.offset

\* C9: every LogPosition has log_pos and log_file both present or both absent
C9_BothOrNeither ==
    IsLog(q) => ((q.log_pos = None) <=> (q.log_file = None))

\* C10: after any number of persist-then-reconstruct cycles the position
\* held resumes where the original position resumes
C10_RestartKeepsResume ==
    /\ (cycles > 0) => (to_replication_dict(q) = to_replication_dict(p))
    /\ (cycles > 0 /\ last = "to_replication_dict")
            => ([exc |-> exc, val |-> resume] = to_replication_dict(p))

C10_Witness ==
    /\ cycles = MaxCycles
    /\ last = "to_replication_dict"
    /\ p.cls = "GtidPosition"
    /\ p.gtid = PyStr(<<"a", ":", "9">>)
    /\ p.offset = PyInt(2)
    /\ resume = Item("auto_position", PyStr(<<"a", ":", "1", "-", "9">>))

====
